---- MODULE Spec2Model ----
(***************************************************************************)
(* Model of src/stream.py, the ShopSmart store performance dashboard.      *)
(*                                                                         *)
(* The script is re-executed top to bottom by the UI host on every widget  *)
(* event.  One rerun is modelled as the chain of its statements (pc names  *)
(* the next statement group); the only state that survives a rerun is the  *)
(* st.cache_data memo of load_data and the widgets' values.                *)
(*                                                                         *)
(* Dates.  A calendar date is a day index d >= 0; its month is             *)
(* d \div DaysPerMonth.  A pandas Timestamp is a tick count, TicksPerDay   *)
(* ticks to the day.  The CSV 'Month' cell is text: <<m>> ("YYYY-MM") or   *)
(* <<m, d>> ("YYYY-MM-DD").                                                *)
(*                                                                         *)
(* Means are exact rationals <<numerator, denominator>> in lowest terms.   *)
(* The Competitor columns are only handed to the charting calls and are    *)
(* left out of the rows.                                                   *)
(***************************************************************************)
EXTENDS Integers, Sequences, FiniteSets, TLC

VARIABLES
    csv,              \* content of ShopSmart_BI_Dummy_5000.csv (rows, Month as text)
    cache,            \* st.cache_data memo of load_data: <<>> or <<dataset>>
    reads,            \* number of pd.read_csv executions in this process
    ui,               \* widget values held by the host between reruns
    prev,             \* history: how the previous rerun ended ("none" on the first)
    pc,               \* next statement group of the running script
    df,
    all_stores, selected_store,
    min_date, max_date, date_range,
    filtered_df,
    warned,           \* st.warning was emitted in this rerun
    charts,           \* st.plotly_chart calls of this rerun: [fig, rows of its table]
    metrics,          \* st.metric labels emitted in this rerun
    avg_sales_decline, avg_holding_costs, avg_market_share,
    inv_tbl, loyalty_tbl, promo_sales_tbl, promo_costs_tbl,
    store_performance, top_bottom_df

host == <<csv, cache, reads, ui, prev>>
filters == <<all_stores, selected_store, min_date, max_date, date_range>>
kpis == <<metrics, avg_sales_decline, avg_holding_costs, avg_market_share>>
groupTables == <<inv_tbl, loyalty_tbl, promo_sales_tbl, promo_costs_tbl>>
ranking == <<store_performance, top_bottom_df>>
vars == <<host, pc, df, filters, filtered_df, warned, charts, kpis, groupTables, ranking>>

-----------------------------------------------------------------------------
(* Program constants *)

\* head(10), tail(10), ['Best'] * 10 + ['Worst'] * 10
K == 10
\* the 'All Stores' entry of the selectbox; Store_IDs are 1, 2, ...
AllStores == 0

(* Bounds of the model *)

MaxRows == 2          \* longest exhaustive dataset
MaxStores == 21       \* most stores of a ranking dataset
DaysPerMonth == 2     \* days of a calendar month
TicksPerDay == 2      \* Timestamp ticks of a day

-----------------------------------------------------------------------------
(* Arithmetic helpers *)

Min(a, b) == IF a <= b THEN a ELSE b
Max(a, b) == IF a >= b THEN a ELSE b

RECURSIVE GCD(_, _)
GCD(a, b) == IF b = 0 THEN a ELSE GCD(b, a % b)

RECURSIVE SumSeq(_)
SumSeq(s) == IF s = <<>> THEN 0 ELSE Head(s) + SumSeq(Tail(s))

\* Series.mean(): <<0, 0>> stands for NaN (mean of no values)
Mean(s) ==
    IF Len(s) = 0 THEN <<0, 0>>
    ELSE LET t == SumSeq(s)
             g == GCD(Len(s), t)
         IN  <<t \div g, Len(s) \div g>>

\* x <= y on means
MeanLeq(x, y) == x[1] * y[2] <= y[1] * x[2]

\* sorted(...) of a finite set of integers
RECURSIVE Sorted(_)
Sorted(S) ==
    IF S = {} THEN <<>>
    ELSE LET m == CHOOSE x \in S : \A y \in S : x <= y
         IN  <<m>> \o Sorted(S \ {m})

Range(s) == {s[i] : i \in 1..Len(s)}

\* df[col]
Column(tbl, col) == [i \in 1..Len(tbl) |-> tbl[i][col]]

-----------------------------------------------------------------------------
(* Dates *)

\* pd.to_datetime on a 'Month' cell: a missing day is the first of the month,
\* the time of day is midnight
ToDatetime(text) ==
    LET d == IF Len(text) = 1 THEN 0 ELSE text[2]
    IN  (text[1] * DaysPerMonth + d) * TicksPerDay

\* Timestamp.date() / Series.dt.date
DtDate(ts) == ts \div TicksPerDay

-----------------------------------------------------------------------------
(* The CSV files the model is run on *)

Row(s, m, reg, sd, hc, ms, inv, loy, pr) ==
    [Store_ID |-> s, Month |-> m, Region |-> reg, Sales_Decline |-> sd,
     Holding_Costs |-> hc, Market_Share |-> ms,
     Inv_Match |-> inv, Loyalty |-> loy, Promo |-> pr]

\* rows the exhaustive datasets are built from: two stores, months 0 and 1,
\* first-of-month and mid-month cells, equal and different metric values
RowPool ==
    { Row(1, <<0>>,    "North", 1, 4, 3, "High",   "Strong",   "Effective"),
      Row(1, <<1, 1>>, "North", 3, 2, 1, "Low",    "Weak",     "Ineffective"),
      Row(2, <<0, 1>>, "South", 2, 4, 2, "Medium", "Strong",   "Effective"),
      Row(2, <<1>>,    "South", 3, 1, 3, "High",   "Moderate", "Ineffective"),
      Row(2, <<0>>,    "North", 0, 0, 0, "Low",    "Weak",     "Effective") }

\* every CSV of 1..MaxRows rows over RowPool
SmallDatasets == UNION {[1..n -> RowPool] : n \in 1..MaxRows}

Patterns == {"asc", "desc", "tie"}

\* Sales Decline of store s in a ranking dataset of n stores; under "tie"
\* stores K and K+1 have the same value
PatternValue(pat, s, n) ==
    CASE pat = "asc"  -> s
      [] pat = "desc" -> n + 1 - s
      [] pat = "tie"  -> IF s <= K THEN s ELSE s - 1

\* a CSV of n stores: one row per store on the first of month 0, and a second
\* row on the next day for the odd stores
RankingDataset(n, pat) ==
    LET first(s) ==
            Row(s, <<0>>, IF s % 2 = 0 THEN "North" ELSE "South",
                PatternValue(pat, s, n), s % 3, s % 2,
                <<"High", "Low", "Medium">>[(s % 3) + 1],
                <<"Moderate", "Strong", "Weak">>[((s \div 2) % 3) + 1],
                <<"Effective", "Ineffective">>[(s % 2) + 1])
        second(s) ==
            Row(s, <<0, 1>>, "South",
                PatternValue(pat, s, n) + 1, (s + 1) % 3, 1,
                "Low", "Weak", <<"Effective", "Ineffective">>[((s \div 2) % 2) + 1])
    IN  [s \in 1..n |-> first(s)] \o [j \in 1..((n + 1) \div 2) |-> second(2 * j - 1)]

\* store counts from the threshold K of the ranking to beyond 2 * K
RankingSizes == K..MaxStores

RankingDatasets == {RankingDataset(n, pat) : n \in RankingSizes, pat \in Patterns}

Datasets == SmallDatasets \cup RankingDatasets

-----------------------------------------------------------------------------
(* pandas operations *)

\* pd.read_csv followed by df['Month'] = pd.to_datetime(df['Month'])
ReadCsv(file) == [i \in 1..Len(file) |-> [file[i] EXCEPT !.Month = ToDatetime(@)]]

\* alphabetical order of a categorical column's values (groupby sorts its keys)
CategoryOrder(col) ==
    CASE col = "Inv_Match" -> <<"High", "Low", "Medium">>
      [] col = "Loyalty"   -> <<"Moderate", "Strong", "Weak">>
      [] col = "Promo"     -> <<"Effective", "Ineffective">>
      [] col = "Region"    -> <<"North", "South">>

\* the group keys of groupby(col), in groupby's sorted order
GroupKeys(tbl, col) ==
    LET present == Range(Column(tbl, col))
    IN  IF col \in {"Store_ID", "Month"} THEN Sorted(present)
        ELSE SelectSeq(CategoryOrder(col), LAMBDA v : v \in present)

\* variant: every group's row carries the mean of the whole table
GroupByMean_Ungrouped(tbl, key, val) ==
    LET keys == GroupKeys(tbl, key)
    IN  [i \in 1..Len(keys) |-> [key |-> keys[i], mean |-> Mean(Column(tbl, val))]]

\* tbl.groupby(key)[val].mean().reset_index()
GroupByMean(tbl, key, val) ==
    LET keys == GroupKeys(tbl, key)
    IN  [i \in 1..Len(keys) |->
            [key  |-> keys[i],
             mean |-> Mean(Column(SelectSeq(tbl, LAMBDA r : r[key] = keys[i]), val))]]

\* tbl.groupby(['Month', 'Region'])[val].mean().reset_index()
GroupByMonthRegionMean(tbl, val) ==
    LET months == GroupKeys(tbl, "Month")
        regions == CategoryOrder("Region")
        pairs == [i \in 1..(Len(months) * Len(regions)) |->
                     <<months[((i - 1) \div Len(regions)) + 1],
                       regions[((i - 1) % Len(regions)) + 1]>>]
        rowsOf(p) == SelectSeq(tbl, LAMBDA r : r.Month = p[1] /\ r.Region = p[2])
        present == SelectSeq(pairs, LAMBDA p : rowsOf(p) # <<>>)
    IN  [i \in 1..Len(present) |->
            [key |-> present[i], mean |-> Mean(Column(rowsOf(present[i]), val))]]

\* Series.sort_values(ascending=True): the default sort is not stable, so
\* equal means may come out in any order
RECURSIVE SortedOrders(_)
SortedOrders(S) ==
    IF S = {} THEN {<<>>}
    ELSE LET least == {x \in S : \A y \in S : MeanLeq(x.mean, y.mean)}
         IN  UNION {{<<m>> \o rest : rest \in SortedOrders(S \ {m})} : m \in least}

SortValues(tbl) == SortedOrders(Range(tbl))

\* Series.head(n)
SeriesHead(s, n) == SubSeq(s, 1, Min(n, Len(s)))

\* variant: the slice ends one row before the last
SeriesTail_OneEarly(s, n) == SubSeq(s, Max(1, Len(s) - n), Max(0, Len(s) - 1))

\* Series.tail(n)
SeriesTail(s, n) == SubSeq(s, Max(1, Len(s) - n + 1), Len(s))

\* ['Best'] * 10 + ['Worst'] * 10
PerformanceLabels == [i \in 1..(2 * K) |-> IF i <= K THEN "Best" ELSE "Worst"]

-----------------------------------------------------------------------------
(* The script *)

\* the script's names before the rerun binds them
Unbound ==
    /\ df = <<>>
    /\ all_stores = <<>> /\ selected_store = AllStores
    /\ min_date = 0 /\ max_date = 0 /\ date_range = <<0, 0>>
    /\ filtered_df = <<>>
    /\ warned = FALSE /\ charts = {} /\ metrics = {}
    /\ avg_sales_decline = <<0, 0>>
    /\ avg_holding_costs = <<0, 0>>
    /\ avg_market_share = <<0, 0>>
    /\ inv_tbl = <<>> /\ loyalty_tbl = <<>>
    /\ promo_sales_tbl = <<>> /\ promo_costs_tbl = <<>>
    /\ store_performance = <<>>
    /\ top_bottom_df = [Store_ID |-> <<>>, Average_Sales_Decline |-> <<>>, Performance |-> <<>>]


\* variant: the warning, charts and metrics of the previous rerun stay on the page
Rebind_KeepPage ==
    /\ df' = <<>>
    /\ all_stores' = <<>> /\ selected_store' = AllStores
    /\ min_date' = 0 /\ max_date' = 0 /\ date_range' = <<0, 0>>
    /\ filtered_df' = <<>>
    /\ UNCHANGED <<warned, charts, metrics>>
    /\ avg_sales_decline' = <<0, 0>>
    /\ avg_holding_costs' = <<0, 0>>
    /\ avg_market_share' = <<0, 0>>
    /\ inv_tbl' = <<>> /\ loyalty_tbl' = <<>>
    /\ promo_sales_tbl' = <<>> /\ promo_costs_tbl' = <<>>
    /\ store_performance' = <<>>
    /\ top_bottom_df' = [Store_ID |-> <<>>, Average_Sales_Decline |-> <<>>, Performance |-> <<>>]

\* a rerun starts with none of the script's names bound and an empty page
Rebind ==
    /\ df' = <<>>
    /\ all_stores' = <<>> /\ selected_store' = AllStores
    /\ min_date' = 0 /\ max_date' = 0 /\ date_range' = <<0, 0>>
    /\ filtered_df' = <<>>
    /\ warned' = FALSE /\ charts' = {} /\ metrics' = {}
    /\ avg_sales_decline' = <<0, 0>>
    /\ avg_holding_costs' = <<0, 0>>
    /\ avg_market_share' = <<0, 0>>
    /\ inv_tbl' = <<>> /\ loyalty_tbl' = <<>>
    /\ promo_sales_tbl' = <<>> /\ promo_costs_tbl' = <<>>
    /\ store_performance' = <<>>
    /\ top_bottom_df' = [Store_ID |-> <<>>, Average_Sales_Decline |-> <<>>, Performance |-> <<>>]

Init ==
    /\ csv \in Datasets
    /\ cache = <<>>
    /\ reads = 0
    /\ ui = [fresh |-> TRUE, store |-> AllStores, lo |-> 0, hi |-> 0]
    /\ prev = "none"
    /\ pc = "load"
    /\ Unbound

\* variant: the memo is never used
CacheMiss_Always(memo) == TRUE

\* @st.cache_data finds no memoized return value of load_data
CacheMiss(memo) == memo = <<>>

\* df = load_data() under @st.cache_data: the body runs on a miss only
LoadData ==
    /\ pc = "load"
    /\ IF CacheMiss(cache)
       THEN /\ reads' = reads + 1
            /\ cache' = <<ReadCsv(csv)>>
            /\ df' = ReadCsv(csv)
       ELSE /\ df' = cache[1]
            /\ UNCHANGED <<reads, cache>>
    /\ pc' = "selectbox"
    /\ UNCHANGED <<csv, ui, prev, filters, filtered_df, warned, charts, kpis,
                   groupTables, ranking>>

\* all_stores = ['All Stores'] + sorted(unique ids); st.sidebar.selectbox
Selectbox ==
    /\ pc = "selectbox"
    /\ all_stores' = <<AllStores>> \o Sorted(Range(Column(df, "Store_ID")))
    /\ selected_store' = IF ui.fresh THEN all_stores'[1] ELSE ui.store
    /\ pc' = "slider"
    /\ UNCHANGED <<host, df, min_date, max_date, date_range, filtered_df, warned,
                   charts, kpis, groupTables, ranking>>

\* min_date, max_date, st.sidebar.slider with value=(min_date, max_date)
Slider ==
    /\ pc = "slider"
    /\ LET dates == {DtDate(t) : t \in Range(Column(df, "Month"))}
           lo == CHOOSE d \in dates : \A e \in dates : d <= e
           hi == CHOOSE d \in dates : \A e \in dates : d >= e
       IN  /\ min_date' = lo
           /\ max_date' = hi
           /\ date_range' = IF ui.fresh THEN <<lo, hi>> ELSE <<ui.lo, ui.hi>>
    /\ pc' = "filter_date"
    /\ UNCHANGED <<host, df, all_stores, selected_store, filtered_df, warned,
                   charts, kpis, groupTables, ranking>>

\* variant: the last day of the range is excluded
DateMask_ExclusiveEnd(r, range) == DtDate(r.Month) >= range[1] /\ DtDate(r.Month) < range[2]

\* (df['Month'].dt.date >= date_range[0]) & (df['Month'].dt.date <= date_range[1])
DateMask(r, range) == DtDate(r.Month) >= range[1] /\ DtDate(r.Month) <= range[2]

FilterDate ==
    /\ pc = "filter_date"
    /\ filtered_df' = SelectSeq(df, LAMBDA r : DateMask(r, date_range))
    /\ pc' = "filter_store"
    /\ UNCHANGED <<host, df, filters, warned, charts, kpis, groupTables, ranking>>

\* variant: stores up to the selected one are kept
StoreMask_AtMost(r, store) == r.Store_ID <= store

\* filtered_df['Store_ID'] == selected_store
StoreMask(r, store) == r.Store_ID = store

\* if selected_store != 'All Stores': filtered_df = filtered_df[... == selected_store]
FilterStore ==
    /\ pc = "filter_store"
    /\ filtered_df' = IF selected_store # AllStores
                      THEN SelectSeq(filtered_df, LAMBDA r : StoreMask(r, selected_store))
                      ELSE filtered_df
    /\ pc' = "check_empty"
    /\ UNCHANGED <<host, df, filters, warned, charts, kpis, groupTables, ranking>>

\* variant: the empty view is not detected
IsEmpty_Never(tbl) == FALSE

\* DataFrame.empty
IsEmpty(tbl) == Len(tbl) = 0

\* if filtered_df.empty: st.warning(...); st.stop()
CheckEmpty ==
    /\ pc = "check_empty"
    /\ IF IsEmpty(filtered_df)
       THEN warned' = TRUE /\ pc' = "stopped"
       ELSE warned' = warned /\ pc' = "kpi"
    /\ UNCHANGED <<host, df, filters, filtered_df, charts, kpis, groupTables, ranking>>

\* variant: the KPI means are taken over df instead of filtered_df
KpiSection_OverDataset ==
    /\ pc = "kpi"
    /\ avg_sales_decline' = Mean(Column(df, "Sales_Decline"))
    /\ avg_holding_costs' = Mean(Column(df, "Holding_Costs"))
    /\ avg_market_share' = Mean(Column(df, "Market_Share"))
    /\ metrics' = {"Average Sales Decline", "Average Inventory Holding Costs",
                   "Average Market Share"}
    /\ pc' = "sec1"
    /\ UNCHANGED <<host, df, filters, filtered_df, warned, charts, groupTables, ranking>>

\* the three means and the three st.metric calls
KpiSection ==
    /\ pc = "kpi"
    /\ avg_sales_decline' = Mean(Column(filtered_df, "Sales_Decline"))
    /\ avg_holding_costs' = Mean(Column(filtered_df, "Holding_Costs"))
    /\ avg_market_share' = Mean(Column(filtered_df, "Market_Share"))
    /\ metrics' = {"Average Sales Decline", "Average Inventory Holding Costs",
                   "Average Market Share"}
    /\ pc' = "sec1"
    /\ UNCHANGED <<host, df, filters, filtered_df, warned, charts, groupTables, ranking>>

\* st.plotly_chart(fig): the figure and the number of rows of the table it draws
Chart(fig, tbl) == [fig |-> fig, rows |-> Len(tbl)]

\* 1. Overall Health Check
Section1 ==
    /\ pc = "sec1"
    /\ charts' = charts \cup {Chart("fig_hist", filtered_df),
                              Chart("fig_region_box", filtered_df)}
    /\ pc' = "sec2"
    /\ UNCHANGED <<host, df, filters, filtered_df, warned, kpis, groupTables, ranking>>

\* 2. Inventory & Demand Alignment
Section2 ==
    /\ pc = "sec2"
    /\ inv_tbl' = GroupByMean(filtered_df, "Inv_Match", "Sales_Decline")
    /\ charts' = charts \cup {Chart("fig_inv", inv_tbl')}
    /\ pc' = "sec3"
    /\ UNCHANGED <<host, df, filters, filtered_df, warned, kpis, loyalty_tbl,
                   promo_sales_tbl, promo_costs_tbl, ranking>>

\* 3. Customer Behavior
Section3 ==
    /\ pc = "sec3"
    /\ loyalty_tbl' = GroupByMean(filtered_df, "Loyalty", "Sales_Decline")
    /\ charts' = charts \cup {Chart("fig_loyalty", loyalty_tbl')}
    /\ pc' = "sec4"
    /\ UNCHANGED <<host, df, filters, filtered_df, warned, kpis, inv_tbl,
                   promo_sales_tbl, promo_costs_tbl, ranking>>

\* 4. Promotions & Pricing
Section4 ==
    /\ pc = "sec4"
    /\ promo_sales_tbl' = GroupByMean(filtered_df, "Promo", "Sales_Decline")
    /\ promo_costs_tbl' = GroupByMean(filtered_df, "Promo", "Holding_Costs")
    /\ charts' = charts \cup {Chart("fig_promo_sales", promo_sales_tbl'),
                              Chart("fig_promo_costs", promo_costs_tbl')}
    /\ pc' = "sec5"
    /\ UNCHANGED <<host, df, filters, filtered_df, warned, kpis, inv_tbl,
                   loyalty_tbl, ranking>>

\* 5. Competition
Section5 ==
    /\ pc = "sec5"
    /\ charts' = charts \cup {Chart("fig_comp_sales", filtered_df),
                              Chart("fig_comp_share", filtered_df)}
    /\ pc' = "sec6"
    /\ UNCHANGED <<host, df, filters, filtered_df, warned, kpis, groupTables, ranking>>

\* 6. Financial Impact
Section6 ==
    /\ pc = "sec6"
    /\ charts' = charts \cup {Chart("fig_cost_scatter", filtered_df),
                              Chart("fig_share_scatter", filtered_df)}
    /\ pc' = "sec7"
    /\ UNCHANGED <<host, df, filters, filtered_df, warned, kpis, groupTables, ranking>>

\* 7. Time-Series Trends
Section7 ==
    /\ pc = "sec7"
    /\ charts' = charts \cup
           {Chart("fig_time", GroupByMonthRegionMean(filtered_df, "Sales_Decline"))}
    /\ pc' = "sec8"
    /\ UNCHANGED <<host, df, filters, filtered_df, warned, kpis, groupTables, ranking>>

\* pd.concat([top_10, bottom_10]).reset_index() with the two columns renamed
TopBottom(perf) ==
    LET both == SeriesHead(perf, K) \o SeriesTail(perf, K)
    IN  [Store_ID |-> Column(both, "key"),
         Average_Sales_Decline |-> Column(both, "mean"),
         Performance |-> <<>>]

\* 8. Top/Bottom 10 Stores.  Assigning the 2 * K labels to a table of another
\* length raises ValueError, which ends the rerun before the chart is drawn.
Section8 ==
    /\ pc = "sec8"
    /\ \E perf \in SortValues(GroupByMean(filtered_df, "Store_ID", "Sales_Decline")) :
          /\ store_performance' = perf
          /\ IF Len(TopBottom(perf).Store_ID) = Len(PerformanceLabels)
             THEN /\ top_bottom_df' =
                        [TopBottom(perf) EXCEPT !.Performance = PerformanceLabels]
                  /\ charts' = charts \cup
                        {Chart("fig_top_bottom", TopBottom(perf).Store_ID)}
                  /\ pc' = "done"
             ELSE /\ top_bottom_df' = TopBottom(perf)
                  /\ charts' = charts
                  /\ pc' = "error"
    /\ UNCHANGED <<host, df, filters, filtered_df, warned, kpis, groupTables>>

\* the rerun is over: the script ran to its end, st.stop() or an exception
Ended == pc \in {"done", "stopped", "error"}

\* a widget event: the host keeps the new widget values and re-executes the
\* script from the top with none of its names bound
Interact ==
    /\ Ended
    /\ \E s \in Range(all_stores), a \in min_date..max_date, b \in min_date..max_date :
          /\ a <= b
          /\ ui' = [fresh |-> FALSE, store |-> s, lo |-> a, hi |-> b]
    /\ prev' = pc
    /\ pc' = "load"
    /\ Rebind
    /\ UNCHANGED <<csv, cache, reads>>

Next ==
    \/ LoadData
    \/ Selectbox
    \/ Slider
    \/ FilterDate
    \/ FilterStore
    \/ CheckEmpty
    \/ KpiSection
    \/ Section1
    \/ Section2
    \/ Section3
    \/ Section4
    \/ Section5
    \/ Section6
    \/ Section7
    \/ Section8
    \/ Interact

Spec == Init /\ [][Next]_vars

-----------------------------------------------------------------------------
(* Reference definitions for the properties, stated on the CSV rows *)

\* the calendar day a 'Month' cell names
CalendarDay(text) == text[1] * DaysPerMonth + (IF Len(text) = 1 THEN 0 ELSE text[2])

\* first day of the calendar month of day d
FirstOfMonth(d) == (d \div DaysPerMonth) * DaysPerMonth

Indices(P(_)) == SelectSeq([i \in 1..Len(csv) |-> i], P)

\* the Records of the Dataset at the CSV rows that satisfy P, in order
Records(P(_)) ==
    LET idx == Indices(P)
    IN  [j \in 1..Len(idx) |-> df[idx[j]]]

InRange(i) == date_range[1] <= CalendarDay(csv[i].Month)
              /\ CalendarDay(csv[i].Month) <= date_range[2]

InStore(i) == selected_store = AllStores \/ csv[i].Store_ID = selected_store

Selected(i) == InRange(i) /\ InStore(i)

\* number of rows of tbl equal to r
Count(tbl, r) == Cardinality({i \in 1..Len(tbl) : tbl[i] = r})

\* the rational m is the arithmetic mean of column col over the rows of tbl
RECURSIVE Total(_, _, _)
Total(tbl, col, n) == IF n = 0 THEN 0 ELSE tbl[n][col] + Total(tbl, col, n - 1)

IsMeanOf(m, tbl, col) ==
    /\ Len(tbl) > 0
    /\ m[2] > 0
    /\ m[1] * Len(tbl) = Total(tbl, col, Len(tbl)) * m[2]

\* positions of the script
DateFiltered == pc \notin {"load", "selectbox", "slider", "filter_date"}
StoreFiltered == DateFiltered /\ pc # "filter_store"
Drawn(fig) == \E c \in charts : c.fig = fig

SectionFigs ==
    {"fig_hist", "fig_region_box", "fig_inv", "fig_loyalty", "fig_promo_sales",
     "fig_promo_costs", "fig_comp_sales", "fig_comp_share", "fig_cost_scatter",
     "fig_share_scatter", "fig_time"}

-----------------------------------------------------------------------------
(* C1 *)

\* C1: with 'All Stores' selected and a range [a, b], a <= b, the filtered
\* view holds exactly the Records whose Month is a day of [a, b], both ends
\* included: none of them is missing, no other Record is present.
C1_DateRangeInclusive ==
    (StoreFiltered /\ selected_store = AllStores) =>
        /\ date_range[1] <= date_range[2]
        /\ filtered_df = Records(InRange)
        /\ \A r \in Range(df) :
              Count(filtered_df, r) =
                  Cardinality({i \in 1..Len(df) : df[i] = r /\ InRange(i)})

\* C1 witness: a range a < b that keeps a Record on its last day and drops
\* a Record of an earlier day
C1_Witness ==
    /\ StoreFiltered /\ selected_store = AllStores
    /\ date_range[1] < date_range[2]
    /\ \E i, k \in 1..Len(csv) :
          /\ CalendarDay(csv[i].Month) = date_range[2]
          /\ CalendarDay(csv[k].Month) < date_range[1]
    /\ Len(filtered_df) = 1

(* C2 *)

\* C2: with a Store_ID selected, every Record of the filtered view has that
\* Store_ID and every Record of the date-filtered view with that Store_ID is
\* kept; with 'All Stores' the filtered view is the date-filtered view.
C2_StoreFilter ==
    StoreFiltered =>
        LET dateView == Records(InRange)
        IN  IF selected_store = AllStores
            THEN filtered_df = dateView
            ELSE /\ \A i \in 1..Len(filtered_df) :
                        filtered_df[i].Store_ID = selected_store
                 /\ \A i \in 1..Len(dateView) :
                        dateView[i].Store_ID = selected_store =>
                            Count(filtered_df, dateView[i]) = Count(dateView, dateView[i])
                 /\ \A i \in 1..Len(filtered_df) :
                        Count(filtered_df, filtered_df[i]) = Count(dateView, filtered_df[i])

\* C2 witness: a selected store whose Records are kept while another store's
\* Record of the date-filtered view is dropped
C2_Witness ==
    /\ StoreFiltered /\ selected_store # AllStores
    /\ filtered_df # <<>>
    /\ Len(filtered_df) < Len(Records(InRange))

(* C3 *)

\* C3: a rerun whose filtered view is empty emits the warning and halts before
\* any KPI or chart; no chart is ever drawn from an empty table.
C3_EmptyHalts ==
    /\ \A c \in charts : c.rows > 0
    /\ (StoreFiltered /\ pc # "check_empty" /\ filtered_df = <<>>) =>
           /\ pc = "stopped"
           /\ warned
           /\ charts = {}
           /\ metrics = {}
    /\ pc = "stopped" => filtered_df = <<>>

\* C3 witness: a rerun halted on an empty filtered view
C3_Witness == pc = "stopped" /\ warned /\ filtered_df = <<>> /\ Len(df) > 0

(* C4 *)

\* C4: for every non-empty filtered view, whatever its number of distinct
\* Store_IDs, the Top/Bottom stage completes and every row of the first-K /
\* last-K table carries one label, 'Best' on the first-K rows and 'Worst' on
\* the last-K rows.
C4_TopBottomLabelled ==
    (StoreFiltered /\ pc \notin {"check_empty", "stopped"}
        /\ store_performance # <<>>) =>
        LET n == Len(store_performance)
            first == Min(K, n)
        IN  /\ pc = "done"
            /\ Len(top_bottom_df.Store_ID) = first + first
            /\ Len(top_bottom_df.Performance) = Len(top_bottom_df.Store_ID)
            /\ \A i \in 1..Len(top_bottom_df.Store_ID) :
                  top_bottom_df.Performance[i] = IF i <= first THEN "Best" ELSE "Worst"

(* C5 *)

StoresInView == {filtered_df[i].Store_ID : i \in 1..Len(filtered_df)}
StoreRecords(s) == SelectSeq(filtered_df, LAMBDA r : r.Store_ID = s)
Labelled(label) ==
    {top_bottom_df.Store_ID[i] :
        i \in {j \in 1..Len(top_bottom_df.Performance) : top_bottom_df.Performance[j] = label}}
\* mean of store s <= mean of store t, on the Records of the filtered view
StoreMeanLeq(s, t) ==
    LET rs == StoreRecords(s)
        rt == StoreRecords(t)
    IN  Total(rs, "Sales_Decline", Len(rs)) * Len(rt)
            <= Total(rt, "Sales_Decline", Len(rt)) * Len(rs)

\* C5: the rows labelled 'Best' are K stores with the lowest per-store mean
\* Sales Decline, the rows labelled 'Worst' are K stores with the highest, each
\* row carries its store's mean, and with at least 2 * K stores in the
\* filtered view no store is under both labels.
C5_BestWorst ==
    top_bottom_df.Performance # <<>> =>
        LET best == Labelled("Best")
            worst == Labelled("Worst")
            stores == StoresInView
        IN  /\ Cardinality(best) = K
            /\ Cardinality(worst) = K
            /\ best \cup worst \subseteq stores
            /\ \A s \in best : \A t \in stores \ best : StoreMeanLeq(s, t)
            /\ \A s \in worst : \A t \in stores \ worst : StoreMeanLeq(t, s)
            /\ \A i \in 1..Len(top_bottom_df.Store_ID) :
                  IsMeanOf(top_bottom_df.Average_Sales_Decline[i],
                           StoreRecords(top_bottom_df.Store_ID[i]), "Sales_Decline")
            /\ Cardinality(stores) >= 2 * K => best \cap worst = {}

\* C5 witness: a labelled ranking of at least 2 * K stores with stores left
\* outside both groups
C5_Witness ==
    /\ top_bottom_df.Performance # <<>>
    /\ Cardinality(StoresInView) > 2 * K
    /\ Len(filtered_df) > Cardinality(StoresInView)

(* C6 *)

\* C6: across reruns the CSV is read at most once; every later load_data call
\* returns the memoized Dataset, which is the one first loaded, and no stage
\* changes it.
C6_LoadedOnce ==
    /\ reads <= 1
    /\ cache # <<>> => (reads = 1 /\ cache[1] = ReadCsv(csv))
    /\ pc # "load" => (cache # <<>> /\ df = cache[1])

\* C6 witness: a later rerun got its Dataset from the memo
C6_Witness == ~ui.fresh /\ prev # "none" /\ pc = "slider" /\ reads = 1 /\ df = cache[1]

(* C7 *)

\* the outcome the selection and the Dataset determine
ExpectedEnd ==
    LET view == Records(Selected)
    IN  IF view = <<>> THEN "stopped"
        ELSE IF Cardinality({view[i].Store_ID : i \in 1..Len(view)}) >= K
             THEN "done" ELSE "error"

\* C7: how a rerun ends and what it renders depends on its own selection and
\* the Dataset only, whatever the earlier reruns did; a rerun after a halted
\* one renders its charts.
C7_OutcomeOfSelectionOnly ==
    Ended =>
        LET end == ExpectedEnd
            view == Records(Selected)
        IN  /\ pc = end
            /\ warned = (end = "stopped")
            /\ {c.fig : c \in charts} =
                  CASE end = "stopped" -> {}
                    [] end = "error"   -> SectionFigs
                    [] end = "done"    -> SectionFigs \cup {"fig_top_bottom"}
            /\ (metrics = {}) = (end = "stopped")
            /\ end # "stopped" =>
                  /\ IsMeanOf(avg_sales_decline, view, "Sales_Decline")
                  /\ IsMeanOf(avg_holding_costs, view, "Holding_Costs")
                  /\ IsMeanOf(avg_market_share, view, "Market_Share")

\* C7 witness: the rerun after one that halted on an empty view ran to the
\* end and drew every chart
C7_Witness == prev = "stopped" /\ pc = "done" /\ Drawn("fig_top_bottom") /\ ~warned

(* C8 *)

\* C8: the date filter truncates the Record's Month and both range bounds to
\* the first day of their month before comparing, so a Record in the calendar
\* month of a bound is inside the interval whatever its day.
C8_MonthGranularity ==
    (StoreFiltered /\ selected_store = AllStores) =>
        LET inMonths(i) ==
                /\ FirstOfMonth(date_range[1]) <= FirstOfMonth(CalendarDay(csv[i].Month))
                /\ FirstOfMonth(CalendarDay(csv[i].Month)) <= FirstOfMonth(date_range[2])
        IN  filtered_df = Records(inMonths)

(* C9 *)

\* C9: the three KPI means are the means over the filtered view; with 'All
\* Stores' and the full range [min Month, max Month] the filtered view is the
\* whole Dataset and the KPI means are its global means.
C9_KpiOverFilteredView ==
    metrics # {} =>
        /\ LET view == Records(Selected)
           IN  /\ IsMeanOf(avg_sales_decline, view, "Sales_Decline")
               /\ IsMeanOf(avg_holding_costs, view, "Holding_Costs")
               /\ IsMeanOf(avg_market_share, view, "Market_Share")
        /\ \A i \in 1..Len(csv) :
              min_date <= CalendarDay(csv[i].Month) /\ CalendarDay(csv[i].Month) <= max_date
        /\ (selected_store = AllStores /\ date_range = <<min_date, max_date>>) =>
              /\ filtered_df = df
              /\ IsMeanOf(avg_sales_decline, df, "Sales_Decline")
              /\ IsMeanOf(avg_holding_costs, df, "Holding_Costs")
              /\ IsMeanOf(avg_market_share, df, "Market_Share")

\* C9 witness: KPIs of a rerun whose filter leaves out Records with other
\* metric values
C9_Witness ==
    /\ metrics # {}
    /\ Len(filtered_df) >= 2
    /\ Len(filtered_df) < Len(df)
    /\ ~IsMeanOf(avg_sales_decline, df, "Sales_Decline")

(* C10 *)

\* tbl is the group-mean table of column val by column key over the filtered view
IsGroupMeanTable(tbl, key, val) ==
    /\ {tbl[i].key : i \in 1..Len(tbl)} = {filtered_df[i][key] : i \in 1..Len(filtered_df)}
    /\ \A i, j \in 1..Len(tbl) : tbl[i].key = tbl[j].key => i = j
    /\ \A i \in 1..Len(tbl) :
          IsMeanOf(tbl[i].mean, SelectSeq(filtered_df, LAMBDA r : r[key] = tbl[i].key), val)

\* C10: each group-mean table (Inventory-Demand Match, Customer Loyalty,
\* Promotions by Sales Decline and by Holding Costs) has one row per category
\* value present in the filtered view, none missing and none extra, and each
\* row's value is the mean of the target column over that category's Records.
C10_GroupMeanTables ==
    /\ Drawn("fig_inv") => IsGroupMeanTable(inv_tbl, "Inv_Match", "Sales_Decline")
    /\ Drawn("fig_loyalty") => IsGroupMeanTable(loyalty_tbl, "Loyalty", "Sales_Decline")
    /\ Drawn("fig_promo_sales") =>
          IsGroupMeanTable(promo_sales_tbl, "Promo", "Sales_Decline")
    /\ Drawn("fig_promo_costs") =>
          IsGroupMeanTable(promo_costs_tbl, "Promo", "Holding_Costs")

\* C10 witness: all four tables drawn, with several categories and a category
\* of several Records
C10_Witness ==
    /\ Drawn("fig_inv") /\ Drawn("fig_loyalty")
    /\ Drawn("fig_promo_sales") /\ Drawn("fig_promo_costs")
    /\ Len(inv_tbl) >= 2 /\ Len(promo_costs_tbl) >= 2
    /\ Len(filtered_df) > Len(inv_tbl)
    /\ \E i \in 1..Len(promo_costs_tbl) : promo_costs_tbl[i].mean[2] > 1

====
